---- MODULE Spec2Model ----
(***************************************************************************)
(* Cocktail recipes API (main.py): the CSV ingestion pipeline              *)
(* (build_header_map, load_rows, normalize_row, slugify) and the           *)
(* process-wide cache that load_rows keeps.                                *)
(*                                                                         *)
(* Text is a sequence of characters, each character a one-character        *)
(* string; the value None of Python is the one-element sequence NoneV,     *)
(* whose element is no character.                                          *)
(***************************************************************************)
EXTENDS Naturals, Integers, Sequences, FiniteSets, TLC

VARIABLES
    CSV_URL,    \* TRUE iff the environment variable CSV_URL is set (line 14)
    clock,      \* what time.time() returns
    cache,      \* the module-level dict _cache (line 21)
    writer,     \* history: for each key of _cache, the fetch that wrote it
    pc,         \* per request task: "idle" or "await" (suspended at line 551)
    loc,        \* per request task: the locals force and now of load_rows
    fetches,    \* history: number of upstream GETs issued so far
    ev,         \* history: the last step taken by a load_rows call
    input,      \* pure-function specifications: the input drawn by Init
    out         \* pure-function specifications: result of the last operation

vars == <<CSV_URL, clock, cache, writer, pc, loc, fetches, ev, input, out>>

cacheVars == <<CSV_URL, clock, cache, writer, pc, loc, fetches, ev>>

-----------------------------------------------------------------------------
(* Text helpers: the str methods and re.sub calls the program uses.        *)

NoneV == <<"None">>

UPPER == <<"A","B","C","D","E","F","G","H","I","J","K","L","M",
           "N","O","P","Q","R","S","T","U","V","W","X","Y","Z">>

LOWER == <<"a","b","c","d","e","f","g","h","i","j","k","l","m",
           "n","o","p","q","r","s","t","u","v","w","x","y","z">>

DIGITS == {"0","1","2","3","4","5","6","7","8","9"}

\* str.strip() with no argument strips these
WHITESPACE == {" ", "\t", "\n", "\r"}

Range(s) == {s[i] : i \in DOMAIN s}

\* str.lower() on one character
LowerChar(c) ==
    IF \E i \in DOMAIN UPPER : UPPER[i] = c
    THEN LOWER[CHOOSE i \in DOMAIN UPPER : UPPER[i] = c]
    ELSE IF c = "É" THEN "é"
    ELSE c

Lower(s) == [i \in DOMAIN s |-> LowerChar(s[i])]

\* unicodedata.normalize("NFD", c) followed by dropping the characters of
\* category Mn: an accented letter becomes its base letter
StripMarksChar(c) ==
    CASE c = "é" -> "e"
      [] c = "É" -> "E"
      [] OTHER   -> c

StripMarks(s) == [i \in DOMAIN s |-> StripMarksChar(s[i])]

\* the character class [a-z0-9]
IsAlnum(c) == c \in Range(LOWER) \cup DIGITS

\* s.strip(chars): drop leading and trailing characters of the set chars
RECURSIVE LStrip(_, _)
LStrip(s, chars) ==
    IF s # <<>> /\ Head(s) \in chars THEN LStrip(Tail(s), chars) ELSE s

RECURSIVE RStrip(_, _)
RStrip(s, chars) ==
    IF s # <<>> /\ s[Len(s)] \in chars
    THEN RStrip(SubSeq(s, 1, Len(s) - 1), chars)
    ELSE s

Strip(s, chars) == RStrip(LStrip(s, chars), chars)

\* re.sub(r"[^a-z0-9]+", sep, s): every maximal run of characters outside
\* [a-z0-9] becomes one sep
RECURSIVE SubRuns(_, _, _)
SubRuns(s, sep, inRun) ==
    IF s = <<>> THEN <<>>
    ELSE IF IsAlnum(Head(s)) THEN <<Head(s)>> \o SubRuns(Tail(s), sep, FALSE)
    ELSE IF inRun THEN SubRuns(Tail(s), sep, TRUE)
    ELSE <<sep>> \o SubRuns(Tail(s), sep, TRUE)

\* x or ""
OrEmpty(x) == IF x = NoneV \/ x = <<>> THEN <<>> ELSE x

\* d.get(k): None when the key is missing
Get(d, k) == IF k \in DOMAIN d THEN d[k] ELSE NoneV

-----------------------------------------------------------------------------
(* Header normalisation (lines 74-99) and slugify (lines 101-106).         *)

kName        == <<"n","a","m","e">>
kSlug        == <<"s","l","u","g">>
kGlass       == <<"g","l","a","s","s">>
kMethod      == <<"m","e","t","h","o","d">>
kIce         == <<"i","c","e">>
kGarnish     == <<"g","a","r","n","i","s","h">>
kIngredients == <<"i","n","g","r","e","d","i","e","n","t","s">>
kSpecMl      == <<"s","p","e","c","_","m","l">>
kSpecOz      == <<"s","p","e","c","_","o","z">>
kHistory     == <<"h","i","s","t","o","r","y">>
kTags        == <<"t","a","g","s">>
kAbvEst      == <<"a","b","v","_","e","s","t">>
kNotes       == <<"n","o","t","e","s">>
kSource      == <<"s","o","u","r","c","e">>
kLastUpdate  == <<"l","a","s","t","_","u","p","d","a","t","e">>

CANONICAL == <<kName, kSlug, kGlass, kMethod, kIce, kGarnish, kIngredients,
               kSpecMl, kSpecOz, kHistory, kTags, kAbvEst, kNotes, kSource,
               kLastUpdate>>

CANON_SET == Range(CANONICAL)

norm_header(h) ==
    LET h1 == Lower(Strip(OrEmpty(h), WHITESPACE))
        h2 == StripMarks(h1)
        h3 == Strip(SubRuns(h2, "_", FALSE), {"_"})
    IN  CASE h3 = <<"s","p","e","c","m","l">> -> kSpecMl
          [] h3 = <<"s","p","e","c","o","z">> -> kSpecOz
          [] h3 = <<"l","a","s","t","u","p","d","a","t","e">> -> kLastUpdate
          [] OTHER -> h3

\* The loop of build_header_map over fieldnames[1..n]: the pair of the
\* locals mapping and used after n iterations
RECURSIVE HeaderLoop(_, _)
HeaderLoop(fieldnames, n) ==
    IF n = 0 THEN [mapping |-> <<>>, used |-> {}]
    ELSE LET prev == HeaderLoop(fieldnames, n - 1)
             orig == fieldnames[n]
             nh   == norm_header(orig)
             rest == [k \in DOMAIN prev.mapping \ {orig} |-> prev.mapping[k]]
         IN  IF nh \in CANON_SET /\ nh \notin prev.used
             THEN [mapping |-> rest @@ (orig :> nh),
                   used    |-> prev.used \cup {nh}]
             ELSE [mapping |-> rest @@ (orig :> orig),
                   used    |-> prev.used]

build_header_map(fieldnames) == HeaderLoop(fieldnames, Len(fieldnames)).mapping

slugify_NoStrip(s) == SubRuns(StripMarks(Lower(s)), "-", FALSE)

slugify(s) ==
    Strip(SubRuns(StripMarks(Lower(s)), "-", FALSE), {"-"})

-----------------------------------------------------------------------------
(* The parse step of load_rows (lines 567-570).  A document is the header  *)
(* row and the data rows that csv.reader yields for the body: fieldnames   *)
(* is a sequence of texts, rows a sequence of sequences of texts.  Rows    *)
(* have at most as many cells as there are headers.                        *)

MaxOf(S) == CHOOSE m \in S : \A x \in S : x <= m

\* dict keys keep the place of their first insertion
RECURSIVE KeyOrder(_)
KeyOrder(names) ==
    IF names = <<>> THEN <<>>
    ELSE LET init == KeyOrder(SubSeq(names, 1, Len(names) - 1))
             last == names[Len(names)]
         IN  IF last \in Range(init) THEN init ELSE Append(init, last)

\* csv.DictReader.__next__: dict(zip(fieldnames, cells)), then restval None
\* for the headers the row has no cell for; a repeated header keeps the
\* value assigned last
DictRow(fieldnames, cells) ==
    [k \in Range(fieldnames) |->
        LET i == MaxOf({j \in DOMAIN fieldnames : fieldnames[j] = k})
        IN  IF i <= Len(cells) THEN cells[i] ELSE NoneV]

\* line 569: {hmap.get(k, k): v for k, v in row.items()}
RemapRow(hmap, fieldnames, cells) ==
    LET keys == KeyOrder(fieldnames)
        row  == DictRow(fieldnames, cells)
        to(k) == IF k \in DOMAIN hmap THEN hmap[k] ELSE k
    IN  [t \in {to(k) : k \in Range(keys)} |->
            row[keys[MaxOf({j \in DOMAIN keys : to(keys[j]) = t})]]]

\* line 570: the rows that are kept
HasName_NoStrip(r) == OrEmpty(Get(r, kName)) # <<>>

HasName(r) == Strip(OrEmpty(Get(r, kName)), WHITESPACE) # <<>>

\* DictReader skips the rows csv.reader yields as [] (blank lines)
NotBlank(cells) == cells # <<>>

ParseRows(fieldnames, rows) ==
    LET hmap  == build_header_map(fieldnames)
        lines == SelectSeq(rows, NotBlank)
        dicts == [i \in DOMAIN lines |-> RemapRow(hmap, fieldnames, lines[i])]
    IN  SelectSeq(dicts, HasName)

-----------------------------------------------------------------------------
(* json.loads as far as normalize_row needs it.  An ingredients cell is a  *)
(* sequence of JSON tokens: the punctuation "[", "]", ",", white space,    *)
(* and whole lexemes (an object literal, a number, or text that is no      *)
(* JSON at all).                                                           *)

NoFields == [k \in {} |-> [type |-> "null", text |-> ""]]

JString(t) == [type |-> "string", text |-> t]
JNumber(t) == [type |-> "number", text |-> t]

JObject(fields) == [type |-> "object", fields |-> fields]
JArray          == [type |-> "array",  fields |-> NoFields]
JScalar         == [type |-> "number", fields |-> NoFields]

tokGin    == "{\"item\":\"Gin\",\"ml\":50}"
tokLime   == "{\"item\":\"Lime\",\"oz\":\"1\"}"
tokNoItem == "{\"ml\":50}"
tokBadMl  == "{\"item\":\"Rum\",\"ml\":\"abc\"}"
tokNumber == "7"
tokJunk   == "not json"

\* the lexemes json.loads accepts as one value, with the value
IsJsonLexeme(tok) == tok \in {tokGin, tokLime, tokNoItem, tokBadMl, tokNumber}

JsonLexeme(tok) ==
    CASE tok = tokGin    -> JObject([item |-> JString("Gin"), ml |-> JNumber("50")])
      [] tok = tokLime   -> JObject([item |-> JString("Lime"), oz |-> JString("1")])
      [] tok = tokNoItem -> JObject([ml |-> JNumber("50")])
      [] tok = tokBadMl  -> JObject([item |-> JString("Rum"), ml |-> JString("abc")])
      [] OTHER           -> JScalar

RECURSIVE SkipWs(_, _)
SkipWs(t, i) ==
    IF i <= Len(t) /\ t[i] \in WHITESPACE THEN SkipWs(t, i + 1) ELSE i

JFail == [ok |-> FALSE, v |-> JScalar, items |-> <<>>, next |-> 0]

\* One JSON value starting at t[i] (white space skipped): ok, the value, for
\* an array its elements, and the index after it
RECURSIVE JsonValue(_, _)
RECURSIVE JsonElements(_, _, _)
JsonValue(t, i) ==
    LET j == SkipWs(t, i)
    IN  IF j > Len(t) THEN JFail
        ELSE IF t[j] = "[" THEN
            LET k == SkipWs(t, j + 1)
            IN  IF k <= Len(t) /\ t[k] = "]"
                THEN [ok |-> TRUE, v |-> JArray, items |-> <<>>, next |-> k + 1]
                ELSE JsonElements(t, k, <<>>)
        ELSE IF IsJsonLexeme(t[j])
        THEN [ok |-> TRUE, v |-> JsonLexeme(t[j]), items |-> <<>>, next |-> j + 1]
        ELSE JFail

\* the elements of an array after "[": value ("," value)* "]"
JsonElements(t, i, acc) ==
    LET e == JsonValue(t, i)
    IN  IF ~e.ok THEN JFail
        ELSE LET k == SkipWs(t, e.next)
             IN  IF k > Len(t) THEN JFail
                 ELSE IF t[k] = "]"
                 THEN [ok |-> TRUE, v |-> JArray, items |-> Append(acc, e.v),
                       next |-> k + 1]
                 ELSE IF t[k] = "," THEN JsonElements(t, k + 1, Append(acc, e.v))
                 ELSE JFail

\* json.loads(t): ok is FALSE when it raises JSONDecodeError
json_loads(t) ==
    LET r == JsonValue(t, 1)
    IN  IF r.ok /\ SkipWs(t, r.next) > Len(t) THEN r ELSE JFail

-----------------------------------------------------------------------------
(* The pydantic model Ingredient (lines 26-29).                            *)

\* the numbers the JSON lexemes hold
NumVal(text) == CASE text = "50" -> 50 [] text = "1" -> 1 [] OTHER -> 0

IsNumText(text) == text \in {"50", "1"}

\* an Optional[float] field: valid when missing, null, a number, or a string
\* that reads as a number
FloatFieldOk(fields, k) ==
    k \in DOMAIN fields =>
        \/ fields[k].type \in {"null", "number"}
        \/ fields[k].type = "string" /\ IsNumText(fields[k].text)

FloatField(fields, k) ==
    IF k \in DOMAIN fields /\ fields[k].type # "null"
    THEN <<NumVal(fields[k].text)>>
    ELSE <<>>

\* Ingredient(**x) returns (rather than raising TypeError or ValidationError)
IngredientOk(x) ==
    /\ x.type = "object"
    /\ "item" \in DOMAIN x.fields
    /\ x.fields["item"].type = "string"
    /\ FloatFieldOk(x.fields, "ml")
    /\ FloatFieldOk(x.fields, "oz")

Ingredient(x) ==
    [item |-> x.fields["item"].text,
     ml   |-> FloatField(x.fields, "ml"),
     oz   |-> FloatField(x.fields, "oz")]

-----------------------------------------------------------------------------
(* normalize_row (lines 578-605).                                          *)

\* s.split(sep)
RECURSIVE Split(_, _)
Split(s, sep) ==
    IF sep \notin Range(s) THEN <<s>>
    ELSE LET i == CHOOSE j \in DOMAIN s :
                     s[j] = sep /\ \A k \in 1..(j - 1) : s[k] # sep
         IN  <<SubSeq(s, 1, i - 1)>> \o Split(SubSeq(s, i + 1, Len(s)), sep)

\* s.replace(c, "")
Remove(s, c) == SelectSeq(s, LAMBDA x : x # c)

\* s.isdigit()
IsDigit(s) == s # <<>> /\ \A i \in DOMAIN s : s[i] \in DIGITS

DigitVal(c) ==
    CASE c = "0" -> 0 [] c = "1" -> 1 [] c = "2" -> 2 [] c = "3" -> 3
      [] c = "4" -> 4 [] c = "5" -> 5 [] c = "6" -> 6 [] c = "7" -> 7
      [] c = "8" -> 8 [] c = "9" -> 9 [] OTHER -> 0

RECURSIVE IntOf(_)
IntOf(s) ==
    IF s = <<>> THEN 0
    ELSE 10 * IntOf(SubSeq(s, 1, Len(s) - 1)) + DigitVal(s[Len(s)])

\* The decimal literals float() reads, white space around them stripped:
\* digits with at most one point and at least one digit.  (Signs, exponents,
\* inf and nan are outside the alphabet of the cells.)
IsDecimal(s) ==
    LET t == Strip(s, WHITESPACE)
    IN  /\ \A i \in DOMAIN t : t[i] \in DIGITS \cup {"."}
        /\ \E i \in DOMAIN t : t[i] \in DIGITS
        /\ Cardinality({i \in DOMAIN t : t[i] = "."}) <= 1

\* float(s) for such a literal: num / 10^scale
FloatOf(s) ==
    LET t   == Strip(s, WHITESPACE)
        dot == {i \in DOMAIN t : t[i] = "."}
    IN  [some  |-> TRUE,
         num   |-> IntOf(Remove(t, ".")),
         scale |-> IF dot = {} THEN 0 ELSE Len(t) - MaxOf(dot)]

NoFloat == [some |-> FALSE, num |-> 0, scale |-> 0]

\* line 579: raw.get("slug") or raw.get("name", "")
SlugSource(raw) ==
    IF OrEmpty(Get(raw, kSlug)) # <<>> THEN Get(raw, kSlug)
    ELSE IF kName \in DOMAIN raw THEN raw[kName] ELSE <<>>

\* slugify(None) raises AttributeError: None has no lower()
SlugRaises(raw) == SlugSource(raw) = NoneV

\* line 580
TagsOf(raw) ==
    LET parts == Split(OrEmpty(Get(raw, kTags)), ",")
        trim  == [i \in DOMAIN parts |-> Strip(parts[i], WHITESPACE)]
    IN  SelectSeq(trim, LAMBDA t : t # <<>>)

NoIngredients == [some |-> FALSE, list |-> <<>>]

\* line 586: the list comprehension raises at the first element that
\* Ingredient rejects, and then ingredients keeps the value None
IngredientList_SkipInvalid(data) ==
    LET kept == SelectSeq(data, IngredientOk)
    IN  [some |-> TRUE, list |-> [i \in DOMAIN kept |-> Ingredient(kept[i])]]

IngredientList(data) ==
    IF \A i \in DOMAIN data : IngredientOk(data[i])
    THEN [some |-> TRUE, list |-> [i \in DOMAIN data |-> Ingredient(data[i])]]
    ELSE NoIngredients

\* lines 581-588
IngredientsOf(raw) ==
    LET ings_val == Strip(OrEmpty(Get(raw, kIngredients)), WHITESPACE)
    IN  IF ings_val # <<>> /\ Head(ings_val) = "["
        THEN LET data == json_loads(ings_val)
             IN  IF data.ok THEN IngredientList(data.items) ELSE NoIngredients
        ELSE NoIngredients

\* line 601: the guard, and whether float() then raises ValueError
AbvGuard(raw) == IsDigit(Remove(OrEmpty(Get(raw, kAbvEst)), "."))

AbvRaises(raw) == AbvGuard(raw) /\ ~IsDecimal(Get(raw, kAbvEst))

AbvOf(raw) == IF AbvGuard(raw) THEN FloatOf(Get(raw, kAbvEst)) ELSE NoFloat

Recipe(raw) ==
    [name        |-> Strip(OrEmpty(Get(raw, kName)), WHITESPACE),
     slug        |-> slugify(SlugSource(raw)),
     glass       |-> Get(raw, kGlass),
     method      |-> Get(raw, kMethod),
     ice         |-> Get(raw, kIce),
     garnish     |-> Get(raw, kGarnish),
     ingredients |-> IngredientsOf(raw),
     spec_ml     |-> Get(raw, kSpecMl),
     spec_oz     |-> Get(raw, kSpecOz),
     history     |-> Get(raw, kHistory),
     tags        |-> TagsOf(raw),
     abv_est     |-> AbvOf(raw),
     notes       |-> Get(raw, kNotes),
     source      |-> Get(raw, kSource),
     last_update |-> Get(raw, kLastUpdate)]

NoRecipe == Recipe([k \in {kName} |-> <<>>])

\* normalize_row(raw): raised is TRUE when the call raises instead of
\* returning a Recipe
normalize_row(raw) ==
    IF SlugRaises(raw) \/ AbvRaises(raw)
    THEN [raised |-> TRUE, recipe |-> NoRecipe]
    ELSE [raised |-> FALSE, recipe |-> Recipe(raw)]

-----------------------------------------------------------------------------
(* The bodies of the handlers after their load_rows call (lines 496-537):  *)
(* rows is what load_rows returned.                                        *)

Response(status, body) == [status |-> status, body |-> body]

\* line 500
list_recipes(rows) ==
    IF \E i \in DOMAIN rows : normalize_row(rows[i]).raised
    THEN Response(500, <<>>)
    ELSE Response(200, [i \in DOMAIN rows |-> normalize_row(rows[i]).recipe])

\* x or y or ""
FirstTruthy(x, y) == IF OrEmpty(x) # <<>> THEN x ELSE OrEmpty(y)

\* str(v) of a JSON scalar inside the f-string of line 513
Shown(fields, k) == IF k \in DOMAIN fields THEN <<fields[k].text>> ELSE <<>>

\* "\n".join(lines)
RECURSIVE JoinLines(_)
JoinLines(lines) ==
    IF lines = <<>> THEN <<>>
    ELSE IF Len(lines) = 1 THEN lines[1]
    ELSE lines[1] \o <<"\n">> \o JoinLines(Tail(lines))

\* lines 508-517
IngredientsText(r) ==
    LET ings_val == Strip(OrEmpty(Get(r, kIngredients)), WHITESPACE)
        fallback == FirstTruthy(Get(r, kSpecMl), Get(r, kSpecOz))
    IN  IF ings_val # <<>> /\ Head(ings_val) = "["
        THEN LET data == json_loads(ings_val)
             IN  IF data.ok /\ \A i \in DOMAIN data.items : data.items[i].type = "object"
                 THEN LET kept == SelectSeq(data.items,
                                            LAMBDA x : "item" \in DOMAIN x.fields)
                      IN  JoinLines([i \in DOMAIN kept |->
                              Shown(kept[i].fields, "item") \o <<" ", "-", " ">>
                                  \o Shown(kept[i].fields, "ml") \o <<"m", "l">>])
                 ELSE fallback
        ELSE fallback

tNonSpecifie == <<"N","o","n"," ","s","p","é","c","i","f","i","é">>

OrDefault(x, d) == IF OrEmpty(x) # <<>> THEN x ELSE d

\* lines 518-525
RecipeSimple(r) ==
    [id     |-> slugify(SlugSource(r)),
     name   |-> Strip(OrEmpty(Get(r, kName)), WHITESPACE),
     glass  |-> Strip(OrDefault(Get(r, kGlass), tNonSpecifie), WHITESPACE),
     method |-> Strip(OrDefault(Get(r, kMethod), tNonSpecifie), WHITESPACE),
     ingredients_text |-> IngredientsText(r),
     tags   |-> Strip(OrEmpty(Get(r, kTags)), WHITESPACE)]

\* lines 506-526
list_recipes_simple(rows) ==
    IF \E i \in DOMAIN rows : SlugRaises(rows[i])
    THEN Response(500, <<>>)
    ELSE Response(200, [i \in DOMAIN rows |-> RecipeSimple(rows[i])])

\* lines 532-537: the first row whose slug is the wanted one
get_recipe(slug, rows) ==
    LET wanted == slugify(Strip(slug, WHITESPACE))
        found  == {i \in DOMAIN rows :
                      ~SlugRaises(rows[i]) /\ slugify(SlugSource(rows[i])) = wanted}
        first  == CHOOSE i \in found : \A j \in found : i <= j
        last   == IF found = {} THEN Len(rows) ELSE first
    IN  IF \E i \in 1..last : SlugRaises(rows[i]) THEN Response(500, <<>>)
        ELSE IF found = {} THEN Response(404, <<>>)
        ELSE IF normalize_row(rows[first]).raised THEN Response(500, <<>>)
        ELSE Response(200, <<normalize_row(rows[first]).recipe>>)

-----------------------------------------------------------------------------
(* The cache and load_rows (lines 19-21, 542-573).                         *)

CACHE_TTL == 60

\* Bounds of the model
NumTasks   == 2     \* concurrent request tasks
MaxFetches == 2     \* upstream GETs in one behaviour
MaxTicks   == 2     \* clock advances in one behaviour
TickStep   == 30    \* seconds per clock advance

Tasks == 1..NumTasks

\* time.time() at start-up: far from the epoch, so older than any TTL
StartClock == CACHE_TTL + TickStep

\* The configured URL: unset, or a spreadsheet share link
UrlUnset == ""
UrlShare == "https://docs.google.com/spreadsheets/d/e/DOC/pubhtml?gid=3"

\* lines 108-120, on the URLs above: the share form is rewritten to the
\* export form, any other URL is returned as it is
google_pubhtml_to_csv(url) ==
    IF url = UrlShare
    THEN "https://docs.google.com/spreadsheets/d/e/DOC/pub?gid=3&single=true&output=csv"
    ELSE url

\* The documents upstream serves in the cache specification
hName   == <<"N","a","m","e">>
hGlass  == <<"G","l","a","s","s">>
tMojito == <<"M","o","j","i","t","o">>
tSpritz == <<"S","p","r","i","t","z">>
tRocks  == <<"R","o","c","k","s">>

docMojito == [fieldnames |-> <<hName, hGlass>>, rows |-> << <<tMojito, tRocks>> >>]
docSpritz == [fieldnames |-> <<hName, hGlass>>, rows |-> << <<tSpritz, tRocks>> >>]
\* a successful document with no valid row: its only row has a blank name
docBlank  == [fieldnames |-> <<hName, hGlass>>, rows |-> << << <<" ">>, tRocks>> >>]
docNone   == [fieldnames |-> <<>>, rows |-> <<>>]

Docs == {docMojito, docSpritz, docBlank}

\* What the GET of line 551 can end in
Responses ==
    [kind : {"network_error", "http_error", "html"}, doc : {docNone}]
        \cup [kind : {"csv"}, doc : Docs]

InitCache == [at |-> 0, rows |-> <<>>, meta |-> <<>>]

\* line 546: the condition under which load_rows answers from the cache
CacheHit_IgnoreForce(force, c, now) == c.rows # <<>> /\ now - c.at < CACHE_TTL

CacheHit(force, c, now) == ~force /\ c.rows # <<>> /\ now - c.at < CACHE_TTL

\* dict.update: every key of new replaces the value old has for it
CacheUpdate_WithoutMeta(old, new) ==
    [k \in DOMAIN old \cup DOMAIN new |->
        IF k \in DOMAIN new /\ k # "meta" THEN new[k] ELSE old[k]]

CacheUpdate(old, new) ==
    [k \in DOMAIN old \cup DOMAIN new |->
        IF k \in DOMAIN new THEN new[k] ELSE old[k]]

IsFailure(resp) == resp.kind # "csv"

\* lines 551-572: _cache once the GET has ended in resp, for the call that
\* sampled now at line 545
AfterFetch_ClearOnFailure(c, now, url, resp) ==
    IF IsFailure(resp)
    THEN CacheUpdate(c, [rows |-> <<>>])
    ELSE CacheUpdate(c, [rows |-> ParseRows(resp.doc.fieldnames, resp.doc.rows),
                         at   |-> now,
                         meta |-> [effective_url |-> google_pubhtml_to_csv(url)]])

AfterFetch(c, now, url, resp) ==
    IF IsFailure(resp)
    THEN c
    ELSE CacheUpdate(c, [rows |-> ParseRows(resp.doc.fieldnames, resp.doc.rows),
                         at   |-> now,
                         meta |-> [effective_url |-> google_pubhtml_to_csv(url)]])

\* what load_rows gives its caller: rows, or the exception it raises
Returned(rows) == [ok |-> TRUE, rows |-> rows, error |-> ""]
Raised(error)  == [ok |-> FALSE, rows |-> <<>>, error |-> error]

FetchResult(c, now, url, resp) ==
    CASE resp.kind = "network_error" -> Raised("httpx.RequestError")
      [] resp.kind = "http_error"    -> Raised("httpx.HTTPStatusError")
      [] resp.kind = "html"          -> Raised("HTTPException 500")
      [] OTHER -> Returned(AfterFetch(c, now, url, resp).rows)

NoLocals == [force |-> FALSE, now |-> 0, id |-> 0]

NoEvent == [kind |-> "none", force |-> FALSE, now |-> 0,
            pre |-> InitCache, resp |-> [kind |-> "none", doc |-> docNone],
            result |-> Raised("")]

Event(kind, force, now, resp, result) ==
    [kind |-> kind, force |-> force, now |-> now,
     pre |-> cache, resp |-> resp, result |-> result]

InitCacheVars ==
    /\ CSV_URL \in {UrlUnset, UrlShare}
    /\ clock = StartClock
    /\ cache = InitCache
    /\ writer = [at |-> 0, rows |-> 0, meta |-> 0]
    /\ pc = [t \in Tasks |-> "idle"]
    /\ loc = [t \in Tasks |-> NoLocals]
    /\ fetches = 0
    /\ ev = NoEvent

\* time passes
Tick ==
    /\ clock + TickStep <= StartClock + MaxTicks * TickStep
    /\ clock' = clock + TickStep
    /\ UNCHANGED <<CSV_URL, cache, writer, pc, loc, fetches, ev, input, out>>

\* lines 543-544: load_rows raises when CSV_URL is not set
ConfigError(t, force) ==
    /\ pc[t] = "idle"
    /\ CSV_URL = UrlUnset
    /\ ev' = Event("config", force, 0, NoEvent.resp, Raised("HTTPException 500"))
    /\ UNCHANGED <<CSV_URL, clock, cache, writer, pc, loc, fetches, input, out>>

\* lines 545-547: the call is answered from the cache
Hit(t, force) ==
    /\ pc[t] = "idle"
    /\ CSV_URL # UrlUnset
    /\ CacheHit(force, cache, clock)
    /\ ev' = Event("hit", force, clock, NoEvent.resp, Returned(cache.rows))
    /\ UNCHANGED <<CSV_URL, clock, cache, writer, pc, loc, fetches, input, out>>

\* lines 545-551: the call issues the GET and is suspended
Issue(t, force) ==
    /\ pc[t] = "idle"
    /\ CSV_URL # UrlUnset
    /\ ~CacheHit(force, cache, clock)
    /\ fetches < MaxFetches
    /\ fetches' = fetches + 1
    /\ pc' = [pc EXCEPT ![t] = "await"]
    /\ loc' = [loc EXCEPT ![t] = [force |-> force, now |-> clock, id |-> fetches + 1]]
    /\ ev' = Event("issue", force, clock, NoEvent.resp, Raised(""))
    /\ UNCHANGED <<CSV_URL, clock, cache, writer, input, out>>

\* lines 551-573: the GET ends, and the call returns or raises
FetchReturn(t, resp) ==
    /\ pc[t] = "await"
    /\ cache' = AfterFetch(cache, loc[t].now, CSV_URL, resp)
    /\ writer' = IF IsFailure(resp) THEN writer
                 ELSE CacheUpdate(writer, [rows |-> loc[t].id, at |-> loc[t].id,
                                           meta |-> loc[t].id])
    /\ pc' = [pc EXCEPT ![t] = "idle"]
    /\ loc' = [loc EXCEPT ![t] = NoLocals]
    /\ ev' = Event(IF IsFailure(resp) THEN "fail" ELSE "ok", loc[t].force,
                   loc[t].now, resp,
                   FetchResult(cache, loc[t].now, CSV_URL, resp))
    /\ UNCHANGED <<CSV_URL, clock, fetches, input, out>>

NoInput == [family |-> "none"]

Init ==
    /\ InitCacheVars
    /\ input = NoInput
    /\ out = NoInput

Next ==
    \/ Tick
    \/ \E t \in Tasks, force \in BOOLEAN : ConfigError(t, force)
    \/ \E t \in Tasks, force \in BOOLEAN : Hit(t, force)
    \/ \E t \in Tasks, force \in BOOLEAN : Issue(t, force)
    \/ \E t \in Tasks, resp \in Responses : FetchReturn(t, resp)

Spec == Init /\ [][Next]_vars

-----------------------------------------------------------------------------
(* SpecParse: one client, a frozen clock, and an upstream that serves the  *)
(* document input on every GET.  Each step is one handler run to its end:  *)
(* its load_rows call (answered from the cache, or by a fetch of input)    *)
(* and its body.  The history variables of Spec are left alone.            *)

\* Bounds of the documents
MaxCols   == 2     \* header columns of a layout document
MaxRows   == 2     \* data rows of a slug document
MaxAbvLen == 3     \* characters of an abv_est cell
MaxElems  == 2     \* elements of an ingredients array
MaxNameLen == 3    \* characters of the cell of a name document

SeqsUpTo(S, n) == UNION {[1..k -> S] : k \in 0..n}

tRose     == <<"R","o","s","é">>
tBlank    == <<" ">>
hNAME     == <<"N","A","M","E"," ">>
hPrix     == <<"P","r","i","x">>

\* Layout documents: any headers, none or one data row, which may be short
LayoutHeaders == {hName, kName, kSlug, hPrix}
LayoutCells   == {<<>>, tBlank, tMojito}

LayoutDocs ==
    {[family |-> "layout", fieldnames |-> f, rows |-> r] :
        <<f, r>> \in UNION {{f} \X ({<<>>} \cup {<<c>> : c \in SeqsUpTo(LayoutCells, Len(f))})
                              : f \in SeqsUpTo(LayoutHeaders, MaxCols)}}

\* Slug documents: columns name and slug, up to MaxRows rows
NameCells == {tMojito, tRose, tBlank}
SlugCells == {<<>>, tBlank, <<"R","O","S","E">>}

SlugDocs ==
    {[family |-> "slug", fieldnames |-> <<hNAME, kSlug>>, rows |-> r] :
        r \in SeqsUpTo({<<n, sl>> : <<n, sl>> \in NameCells \X SlugCells}, MaxRows)}

\* abv documents: columns name and abv_est, one row
AbvChars == {"1", ".", " ", "x"}

AbvDocs ==
    {[family |-> "abv", fieldnames |-> <<kName, kAbvEst>>,
      rows |-> << <<tMojito, c>> >>] : c \in SeqsUpTo(AbvChars, MaxAbvLen)}

\* ingredients documents: columns name and ingredients, one row whose cell
\* is lead "[" e1 "," e2 ... close, or text that does not start with "["
ElemTexts == {<<tokGin>>, <<tokLime>>, <<tokNoItem>>, <<tokBadMl>>,
              <<tokNumber>>, <<tokJunk>>, <<"[", "]">>}
Leads     == {<<>>, <<" ">>}
Closings  == {<<"]">>, <<" ", "]", " ">>, <<>>, <<"]", tokJunk>>, <<",", "]">>}

RECURSIVE JoinElems(_)
JoinElems(elems) ==
    IF elems = <<>> THEN <<>>
    ELSE IF Len(elems) = 1 THEN elems[1]
    ELSE elems[1] \o <<",">> \o JoinElems(Tail(elems))

IngredientsCell(lead, elems, close) == lead \o <<"[">> \o JoinElems(elems) \o close

IngredientsDocs ==
    {[family |-> "ingredients", fieldnames |-> <<kName, kIngredients>>,
      rows |-> << <<tMojito, IngredientsCell(x[1], x[2], x[3])>> >>,
      elems |-> x[2], close |-> x[3]] :
        x \in Leads \X SeqsUpTo(ElemTexts, MaxElems) \X Closings}
    \cup
    {[family |-> "ingredients", fieldnames |-> <<kName, kIngredients>>,
      rows |-> << <<tMojito, c>> >>, elems |-> <<>>, close |-> <<>>] :
        c \in {<<>>, <<tokJunk>>}}

\* text documents: columns name and glass, one row
tPadded == <<" ","R","o","c","k","s"," ">>

TextDocs ==
    {[family |-> "text", fieldnames |-> <<kName, hGlass>>,
      rows |-> << <<tMojito, c>> >>] : c \in {<<>>, tBlank, tRocks, tPadded}}

\* name documents: the column name, one row whose cell is any text of up to
\* MaxNameLen characters
NameChars == {"a", "B", "é", "1", " ", "-"}

NameDocs ==
    {[family |-> "name", fieldnames |-> <<kName>>, rows |-> << <<c>> >>] :
        c \in SeqsUpTo(NameChars, MaxNameLen)}

Documents ==
    LayoutDocs \cup SlugDocs \cup AbvDocs \cup IngredientsDocs \cup TextDocs
        \cup NameDocs

\* the slugs asked of get_recipe
Queries == {<<"M","O","J","I","T","O">>, <<" ","r","o","s","é"," ">>, <<"x">>, <<>>}

InitParse ==
    /\ CSV_URL = UrlShare
    /\ clock = StartClock
    /\ cache = InitCache
    /\ writer = [at |-> 0, rows |-> 0, meta |-> 0]
    /\ pc = [t \in Tasks |-> "idle"]
    /\ loc = [t \in Tasks |-> NoLocals]
    /\ fetches = 0
    /\ ev = NoEvent
    /\ input \in Documents
    /\ out = [op |-> "none"]

Upstream == [kind |-> "csv", doc |-> [fieldnames |-> input.fieldnames,
                                      rows |-> input.rows]]

\* load_rows() run to its end: the cache after it and the rows it returns
LoadedCache ==
    IF CacheHit(FALSE, cache, clock) THEN cache
    ELSE AfterFetch(cache, clock, CSV_URL, Upstream)

LoadedRows ==
    IF CacheHit(FALSE, cache, clock) THEN cache.rows
    ELSE FetchResult(cache, clock, CSV_URL, Upstream).rows

Handler(op, arg, result) ==
    /\ cache' = LoadedCache
    /\ out' = [op |-> op, arg |-> arg, result |-> result]
    /\ UNCHANGED <<CSV_URL, clock, writer, pc, loc, fetches, ev, input>>

ListRecipes == Handler("list_recipes", <<>>, list_recipes(LoadedRows))

ListRecipesSimple == Handler("list_recipes_simple", <<>>, list_recipes_simple(LoadedRows))

GetRecipe(q) == Handler("get_recipe", q, get_recipe(q, LoadedRows))

\* line 568 alone: the header map of the document
BuildHeaderMap ==
    /\ out' = [op |-> "build_header_map", arg |-> input.fieldnames,
                result |-> build_header_map(input.fieldnames)]
    /\ UNCHANGED <<cacheVars, input>>

\* lines 101-106 alone: slugify applied to the name cell of the document
Slugify ==
    /\ input.family = "name"
    /\ out' = [op |-> "slugify", arg |-> input.rows[1][1],
                result |-> slugify(input.rows[1][1])]
    /\ UNCHANGED <<cacheVars, input>>

NextParse ==
    \/ ListRecipes
    \/ ListRecipesSimple
    \/ \E q \in Queries : GetRecipe(q)
    \/ BuildHeaderMap
    \/ Slugify

SpecParse == InitParse /\ [][NextParse]_vars

-----------------------------------------------------------------------------
(* Claims about the cache, checked under Spec.                             *)

\* the cache holds the result of a successful fetch: line 572 is the only
\* place that gives meta a key
Loaded(c) == DOMAIN c.meta # {}

Age(c, now) == now - c.at

\* C1: a non-forced load_rows call made while the cache holds the result of
\* a successful fetch (of any document, one with zero valid rows included)
\* younger than CACHE_TTL issues no fetch, and one made once the TTL has
\* elapsed issues exactly one.
C1_OneFetchPerWindow ==
    (ev.kind \in {"hit", "issue"} /\ ~ev.force /\ Loaded(ev.pre)) =>
        /\ Age(ev.pre, ev.now) < CACHE_TTL => ev.kind = "hit"
        /\ Age(ev.pre, ev.now) >= CACHE_TTL => ev.kind = "issue"

\* C2: when the refetch of a stale cache fails, the call is answered with
\* the old cached rows and not with an error.
C2_StaleServedOnFailure ==
    (/\ ev.kind = "fail"
     /\ ~ev.force
     /\ ev.pre.rows # <<>>
     /\ Age(ev.pre, ev.now) >= CACHE_TTL) =>
        ev.result = Returned(ev.pre.rows)

\* C3: a step of a load_rows call that is not the successful end of its
\* fetch (the call raising for a missing URL, issuing the GET, or the GET
\* failing) leaves rows, at and meta of the cache as they were.
C3_FailureKeepsCache ==
    ev.kind \in {"config", "issue", "fail"} => cache = ev.pre

C3_Witness ==
    /\ ev.kind = "fail"
    /\ ev.resp.kind = "html"
    /\ ev.force
    /\ ~ev.result.ok
    /\ cache.rows # <<>>

\* C4: in every state a task can observe, rows, at and meta of the cache
\* were written by the same fetch (none of them before the first success).
C4_OneSnapshot ==
    /\ writer.rows = writer.at
    /\ writer.at = writer.meta
    /\ Loaded(cache) <=> writer.rows # 0

\* the fetch issued second has written the cache while the call that issued
\* the first is still suspended at its GET
C4_Witness ==
    /\ ev.kind = "ok"
    /\ writer.rows = 2
    /\ cache.rows # <<>>
    /\ \E t \in Tasks : pc[t] = "await" /\ loc[t].id = 1

\* C5: with the URL configured, a forced load_rows call is never answered
\* from the cache, and when its fetch succeeds the cache holds the rows
\* parsed from that response and the time the call sampled.
C5_ForceRefetches ==
    /\ (ev.force /\ ev.kind # "config") => ev.kind # "hit"
    /\ (ev.force /\ ev.kind = "ok") =>
          /\ cache.rows = ParseRows(ev.resp.doc.fieldnames, ev.resp.doc.rows)
          /\ cache.at = ev.now
          /\ ev.result = Returned(cache.rows)

\* a forced call ended well although the cache was fresh and non-empty
C5_Witness ==
    /\ ev.kind = "ok"
    /\ ev.force
    /\ ev.pre.rows # <<>>
    /\ Age(ev.pre, ev.now) < CACHE_TTL
    /\ ev.pre.at < ev.now
    /\ cache.rows # ev.pre.rows

-----------------------------------------------------------------------------
(* Claims about parsing and normalisation, checked under SpecParse.        *)

Trimmed(x) == Strip(OrEmpty(x), WHITESPACE)

Listed == out.op \in {"list_recipes", "list_recipes_simple", "get_recipe"}

\* C6: whatever the headers of the document, no cached row has a name that
\* is empty after trimming, and no recipe returned by list_recipes,
\* list_recipes_simple or get_recipe has one.
C6_NoBlankName ==
    /\ \A i \in DOMAIN cache.rows : Trimmed(Get(cache.rows[i], kName)) # <<>>
    /\ (Listed /\ out.result.status = 200) =>
          \A i \in DOMAIN out.result.body : Trimmed(out.result.body[i].name) # <<>>

\* two columns normalise to name, the row has a name in the first and a
\* blank in the second, and the listing of the loaded cache is empty
C6_Witness ==
    /\ input.family = "layout"
    /\ input.fieldnames = <<hName, kName>>
    /\ input.rows = << <<tMojito, tBlank>> >>
    /\ out.op = "list_recipes"
    /\ Loaded(cache)
    /\ out.result = Response(200, <<>>)

\* C7: build_header_map sends no two distinct headers to the same target:
\* the first header normalising to a canonical name gets it, every later one
\* keeps a spelling that differs from the canonical name.
C7_HeaderMapInjective ==
    out.op = "build_header_map" =>
        /\ \A h1, h2 \in DOMAIN out.result :
              h1 # h2 => out.result[h1] # out.result[h2]
        /\ \A i \in DOMAIN input.fieldnames :
              LET h == input.fieldnames[i]
                  claimed == \E j \in 1..(i - 1) :
                                /\ input.fieldnames[j] # h
                                /\ norm_header(input.fieldnames[j]) = norm_header(h)
              IN  (norm_header(h) \in CANON_SET /\ claimed) =>
                      out.result[h] # norm_header(h)

\* C8: for every abv_est cell normalize_row does not raise, and abv_est is a
\* float exactly when the trimmed cell is a valid number.
C8_AbvNeverRaises ==
    (out.op = "list_recipes" /\ input.family = "abv") =>
        /\ out.result.status = 200
        /\ out.result.body[1].abv_est.some <=> IsDecimal(Trimmed(input.rows[1][2]))

\* the elements of the cell of an ingredients document that Ingredient accepts
GoodElem(e) == e \in {<<tokGin>>, <<tokLime>>}

ItemOf(e) == IF e = <<tokGin>> THEN "Gin" ELSE "Lime"

WellFormed(doc) ==
    /\ doc.rows[1][2] # <<>>
    /\ doc.rows[1][2] # <<tokJunk>>
    /\ doc.close \in {<<"]">>, <<" ", "]", " ">>}
    /\ \A i \in DOMAIN doc.elems : doc.elems[i] # <<tokJunk>>

\* C9: for an ingredients cell starting with "[", normalize_row does not
\* raise and yields one Ingredient per array element, in order, when the
\* JSON is well formed and Ingredient accepts every element; otherwise the
\* ingredients are absent, never a partial list.
C9_IngredientsAllOrNothing ==
    (out.op = "list_recipes" /\ input.family = "ingredients") =>
        /\ out.result.status = 200
        /\ LET ing  == out.result.body[1].ingredients
               good == WellFormed(input) /\ \A i \in DOMAIN input.elems :
                                               GoodElem(input.elems[i])
           IN  /\ ing.some <=> good
               /\ ~ing.some => ing.list = <<>>
               /\ ing.some =>
                     /\ Len(ing.list) = Len(input.elems)
                     /\ \A i \in DOMAIN ing.list :
                           ing.list[i].item = ItemOf(input.elems[i])

\* a well-formed array whose second element has no item: nothing is kept
C9_Witness ==
    /\ out.op = "list_recipes"
    /\ input.family = "ingredients"
    /\ input.elems = <<<<tokGin>>, <<tokNoItem>>>>
    /\ input.close = <<"]">>
    /\ out.result.status = 200
    /\ ~out.result.body[1].ingredients.some

\* C10: the slug of every listed recipe is slugify(slug cell) when the slug
\* cell is non-empty after trimming and slugify(name) otherwise, in
\* list_recipes and in list_recipes_simple alike.
C10_SlugRule ==
    (out.op \in {"list_recipes", "list_recipes_simple"} /\ out.result.status = 200) =>
        \A i \in DOMAIN out.result.body :
            LET row  == cache.rows[i]
                want == IF Trimmed(Get(row, kSlug)) # <<>>
                        THEN slugify(Get(row, kSlug))
                        ELSE slugify(Get(row, kName))
                got  == IF out.op = "list_recipes" THEN out.result.body[i].slug
                        ELSE out.result.body[i].id
            IN  got = want

\* the optional string fields of Recipe (lines 34-46) and their row keys
OptionalText == {"glass", "method", "ice", "garnish", "spec_ml", "spec_oz",
                 "history", "notes", "source", "last_update"}

KeyOf(f) ==
    CASE f = "glass"   -> kGlass   [] f = "method"  -> kMethod
      [] f = "ice"     -> kIce     [] f = "garnish" -> kGarnish
      [] f = "spec_ml" -> kSpecMl  [] f = "spec_oz" -> kSpecOz
      [] f = "history" -> kHistory [] f = "notes"   -> kNotes
      [] f = "source"  -> kSource  [] OTHER         -> kLastUpdate

\* C11: every optional string field of a listed recipe is the trimmed cell,
\* and absent (None) when the cell is empty after trimming.
C11_OptionalTextTrimmed ==
    (out.op = "list_recipes" /\ out.result.status = 200) =>
        \A i \in DOMAIN out.result.body : \A f \in OptionalText :
            LET cell == Trimmed(Get(cache.rows[i], KeyOf(f)))
            IN  out.result.body[i][f] = IF cell = <<>> THEN NoneV ELSE cell

\* the cached rows whose own slug, as normalize_row derives it, is wanted
Matching(wanted) ==
    {i \in DOMAIN cache.rows : slugify(SlugSource(cache.rows[i])) = wanted}

\* C12: get_recipe(q) answers 200 with the recipe of the first cached row
\* whose own slug is slugify(q), that recipe's slug being slugify(q),
\* whenever there is such a row, and 404 when there is none.
C12_LookupBySlug ==
    out.op = "get_recipe" =>
        LET wanted == slugify(out.arg)
            found  == Matching(wanted)
        IN  /\ found = {} => out.result = Response(404, <<>>)
            /\ found # {} =>
                  LET first == CHOOSE i \in found : \A j \in found : i <= j
                  IN  /\ out.result.status = 200
                      /\ out.result.body[1].slug = wanted
                      /\ out.result.body[1].name = Trimmed(cache.rows[first][kName])

-----------------------------------------------------------------------------
(* A claim about concurrent refreshes, checked under Spec.                 *)

\* C14: in no step does the timestamp of the cache decrease, and in no step
\* are the cached rows replaced by the result of a fetch issued before the
\* fetch whose result is cached.
C14_NoStaleOverwrite ==
    [][/\ cache'.at >= cache.at
       /\ writer'.rows >= writer.rows]_vars

====
